---------------------------- MODULE Spec2Model ----------------------------
(***************************************************************************)
(* Model of the chat backend in src/backend/server.py: the POST /api/chat  *)
(* handler send_chat_message, split at its await points, and the two read  *)
(* handlers get_chat_history and get_chat_sessions, over the two MongoDB   *)
(* collections chat_sessions and chat_messages.                            *)
(*                                                                         *)
(* Time: datetime.now(timezone.utc) is modelled by the counter now; every  *)
(* read of the clock returns a value strictly greater than the previous    *)
(* read (one event loop, microsecond resolution, no clock step backwards). *)
(* Identifiers: uuid.uuid4() is modelled by the counter uuids; every call  *)
(* returns a value never returned before.                                  *)
(***************************************************************************)
EXTENDS Integers, Sequences, FiniteSets, TLC

\* ------------------------------------------------------------- bounds
\* Number of chat requests of one run (they may overlap).
MaxRequests == 2

\* ------------------------------------------------- program constants
\* to_list(50) of the context query, to_list(100) of the history query,
\* to_list(20) of the session listing.
CONTEXT_LIMIT == 50
HISTORY_LIMIT == 100
SESSIONS_LIMIT == 20

\* request.session_id of a request that carries none (None, or "": both are
\* falsy in `if not session_id`).
NoSessionId == 0
\* A supplied identifier that no session record carries
\* ("invalid-session-id"); uuid4 never returns it.
UnknownId == -1

\* A request body without the required field `message`.
Missing == "<missing>"
MsgEmpty == ""
MsgBlank == "   "
MsgKeyword == "I am so ANXIOUS today"
MsgPlain == "How can I feel better?"
Texts == {MsgEmpty, MsgBlank, MsgKeyword, MsgPlain}

\* What chat.send_message can return.
GeneratedText == "It sounds like a lot is going on. What would help right now?"
LlmReplies == {GeneratedText, ""}

Requests == 1..MaxRequests

VARIABLES
    chat_sessions,   \* db.chat_sessions: set of session documents
    chat_messages,   \* db.chat_messages: sequence of message documents, in insertion order
    now,             \* the last value the clock returned
    uuids,           \* the number of uuid4() values drawn so far
    api_key,         \* os.environ.get('EMERGENT_LLM_KEY'): "" when absent
    LLM_AVAILABLE,   \* whether emergentintegrations was imported
    pc,              \* per request: where send_chat_message stands
    request,         \* per request: the ChatRequest body
    local,           \* per request: the handler's local variables
    response,        \* per request: the HTTP response
    llm_calls,       \* the requests for which chat.send_message was invoked
    overlapped,      \* the requests whose handler ran while another's was running
    last_get         \* the response of the GET handler that has just run

vars == <<chat_sessions, chat_messages, now, uuids, api_key, LLM_AVAILABLE,
          pc, request, local, response, llm_calls, overlapped,
          last_get>>


\* ------------------------------------------------------------- models
\* ChatSession(): id, created_at and updated_at come from default factories
\* (one uuid4() and two reads of the clock).
ChatSession(id, created, updated) ==
    [id |-> id, user_id |-> "anonymous", created_at |-> created,
     updated_at |-> updated, title |-> "Mental Wellness Chat"]

ChatMessage(id, sid, sender, text, ts) ==
    [id |-> id, session_id |-> sid, sender |-> sender, message |-> text,
     timestamp |-> ts]

\* ChatRequest: `message: str` is required and any string validates,
\* `session_id: Optional[str] = None`.
ChatRequestValid(req) == req.message # Missing

ChatResponse(text, sid, ts) ==
    [status |-> 200, message |-> text, session_id |-> sid, timestamp |-> ts]

\* raise HTTPException(status_code=...): the error responses.
HTTPError(code, detail) ==
    [status |-> code, message |-> detail, session_id |-> NoSessionId, timestamp |-> 0]

NoResponse == [status |-> 0, message |-> "", session_id |-> NoSessionId, timestamp |-> 0]
NoMessage == ChatMessage(0, NoSessionId, "", "", 0)
NoSession == ChatSession(0, 0, 0)

\* ------------------------------------------------------ the collections
\* db.chat_sessions.insert_one(doc)
InsertSession(coll, doc) == coll \cup {doc}

\* Faulty variant: the update never reaches the record.
UpdateSession_NoRefresh(coll, sid, ts) == coll

\* Faulty variant: the filter is empty, so the update reaches every record.
UpdateSession_All(coll, sid, ts) == {[s EXCEPT !.updated_at = ts] : s \in coll}

\* db.chat_sessions.update_one({"id": sid}, {"$set": {"updated_at": ts}}):
\* no upsert, so a filter that matches nothing changes nothing.
UpdateSession(coll, sid, ts) ==
    {IF s.id = sid THEN [s EXCEPT !.updated_at = ts] ELSE s : s \in coll}

\* Faulty variant: the write is a replace_one keyed on session and sender
\* with upsert, so a session keeps one document per sender.
InsertMessage_Upsert(coll, doc) ==
    IF \E i \in DOMAIN coll :
          coll[i].session_id = doc.session_id /\ coll[i].sender = doc.sender
    THEN [i \in DOMAIN coll |->
             IF coll[i].session_id = doc.session_id /\ coll[i].sender = doc.sender
             THEN doc
             ELSE coll[i]]
    ELSE Append(coll, doc)

\* db.chat_messages.insert_one(doc)
InsertMessage(coll, doc) == Append(coll, doc)

Min(a, b) == IF a < b THEN a ELSE b

Range(seq) == {seq[i] : i \in DOMAIN seq}

\* cursor.to_list(n): the first n documents of the cursor.
ToList(cursor, n) == SubSeq(cursor, 1, Min(n, Len(cursor)))

\* cursor.sort("timestamp", 1): ascending by the key; documents with equal
\* keys keep their stored order.
SortTimestampAsc(docs) ==
    LET n == Len(docs)
        Before(j, k) == \/ docs[j].timestamp < docs[k].timestamp
                        \/ docs[j].timestamp = docs[k].timestamp /\ j < k
        placed == {<<Cardinality({j \in 1..n : Before(j, k)}) + 1, k>> : k \in 1..n}
    IN [i \in 1..n |-> docs[(CHOOSE p \in placed : p[1] = i)[2]]]

\* Faulty variant: the query forgets its filter.
FindMessages_NoFilter(coll, sid) == coll

\* db.chat_messages.find({"session_id": sid})
FindMessages(coll, sid) == SelectSeq(coll, LAMBDA m : m.session_id = sid)

\* cursor.sort("updated_at", -1) over db.chat_sessions.find()
SortUpdatedDesc(coll) ==
    LET placed == {<<Cardinality({x \in coll : x.updated_at > s.updated_at}) + 1, s>> :
                      s \in coll}
    IN [i \in 1..Cardinality(coll) |-> (CHOOSE p \in placed : p[1] = i)[2]]

\* The context query of send_chat_message.
ContextQuery(coll, sid) ==
    ToList(SortTimestampAsc(FindMessages(coll, sid)), CONTEXT_LIMIT)

\* The query of get_chat_history.
HistoryQuery(coll, sid) ==
    ToList(SortTimestampAsc(FindMessages(coll, sid)), HISTORY_LIMIT)

\* The query of get_chat_sessions.
SessionsQuery(coll) == ToList(SortUpdatedDesc(coll), SESSIONS_LIMIT)


\* ------------------------------------------- databases left by earlier runs
\* The store outlives the process: a run starts on whatever earlier requests
\* left.  A seed is what whole, non-overlapping chat requests leave: first
\* a request without session_id (it creates session 1) and follow-up
\* requests on session 1 until it holds nm messages, the last follow-up
\* failing in the generation call when nm is odd; then ns - 1 requests
\* without session_id, each answered.  Every request draws its uuids and
\* reads the clock as send_chat_message does.
EmptyDB == [sessions |-> {}, messages |-> <<>>, now |-> 0, uuids |-> 0]

SeedDB(ns, nm) ==
    LET full == (nm - 2) \div 2          \* answered follow-ups on session 1
        part == (nm - 2) % 2             \* 1 when a last follow-up failed
        now1 == 4 + 3 * full + 2 * part  \* the clock after the requests on session 1
        ids1 == 3 + 2 * full + part      \* the uuids drawn by then
        \* the i-th message of session 1
        First(i) ==
            LET e == (i + 1) \div 2      \* the request it belongs to
                user == i % 2 = 1
            IN IF e = 1
               THEN ChatMessage(IF user THEN 2 ELSE 3, 1,
                                IF user THEN "user" ELSE "assistant",
                                IF user THEN MsgPlain ELSE GeneratedText,
                                IF user THEN 3 ELSE 4)
               ELSE ChatMessage(3 + 2 * (e - 2) + (IF user THEN 1 ELSE 2), 1,
                                IF user THEN "user" ELSE "assistant",
                                IF user THEN MsgPlain ELSE GeneratedText,
                                4 + 3 * (e - 2) + (IF user THEN 2 ELSE 3))
        \* the two messages of session j >= 2
        Later(j, user) ==
            ChatMessage(ids1 + 3 * (j - 2) + (IF user THEN 2 ELSE 3),
                        ids1 + 3 * (j - 2) + 1,
                        IF user THEN "user" ELSE "assistant",
                        IF user THEN MsgPlain ELSE GeneratedText,
                        now1 + 4 * (j - 2) + (IF user THEN 3 ELSE 4))
    IN [sessions |->
            {ChatSession(1, 1, IF nm > 2 THEN now1 - (IF part = 1 THEN 1 ELSE 2) ELSE 2)}
            \cup {ChatSession(ids1 + 3 * (j - 2) + 1, now1 + 4 * (j - 2) + 1,
                              now1 + 4 * (j - 2) + 2) : j \in 2..ns},
        messages |->
            [i \in 1..(nm + 2 * (ns - 1)) |->
                IF i <= nm THEN First(i)
                ELSE Later(2 + (i - nm - 1) \div 2, (i - nm) % 2 = 1)],
        now |-> now1 + 4 * (ns - 1),
        uuids |-> ids1 + 3 * (ns - 1)]

\* An empty store; a small one; one beyond every limit of the queries once a
\* request has run on its oldest session.
SmallSeed == SeedDB(2, 3)
LargeSeed == SeedDB(SESSIONS_LIMIT + 1, HISTORY_LIMIT - 1)

\* ------------------------------------------------------------ the state
NoLocal ==
    [session_id |-> NoSessionId, session |-> NoSession, updated_at |-> 0,
     user_message_obj |-> NoMessage, chat_history |-> <<>>,
     ai_response |-> "", ai_message_obj |-> NoMessage]

NoGet == [op |-> "none", arg |-> NoSessionId, status |-> 0, body |-> <<>>]

\* The process starts on one of the stores `seeds`; the credential is set or
\* absent, the client library imported or not.
InitOn(seeds) ==
    \E db \in seeds :
        /\ chat_sessions = db.sessions
        /\ chat_messages = db.messages
        /\ now = db.now
        /\ uuids = db.uuids
        /\ api_key \in {"", "sk-emergent"}
        /\ LLM_AVAILABLE \in BOOLEAN
        /\ pc = [r \in Requests |-> "idle"]
        /\ request = [r \in Requests |-> [message |-> Missing, session_id |-> NoSessionId]]
        /\ local = [r \in Requests |-> NoLocal]
        /\ response = [r \in Requests |-> NoResponse]
        /\ llm_calls = {}
        /\ overlapped = {}
        /\ last_get = NoGet

Init == InitOn({EmptyDB, SmallSeed})

InitRead == InitOn({EmptyDB, SmallSeed, LargeSeed})

\* The identifiers a client can supply: one it was given by an earlier
\* response, the oldest stored session's, or one that names no session.
SuppliedIds ==
    {NoSessionId, UnknownId}
        \cup {s.id : s \in {x \in chat_sessions : x.id = 1}}
        \cup {response[r].session_id : r \in {q \in Requests : response[q].status = 200}}

\* The requests whose handler has started and not yet responded.
InFlight == {r \in Requests : pc[r] \notin {"idle", "done"}}

ChatRequests == [message : Texts \cup {Missing}, session_id : SuppliedIds]

\* Faulty variant: every request takes the create branch.
NeedsNewSession_Always(req) == TRUE

\* `if not session_id`: None and "" both take the create branch.
NeedsNewSession(req) == req.session_id = NoSessionId

\* Faulty variant: the credential check is missing.
CredentialMissing_Never(key) == FALSE

\* `if not api_key`: an unset or empty credential.
CredentialMissing(key) == key = ""

\* except Exception as e: ... raise HTTPException(status_code=500, ...)
ChatServiceError(detail) == HTTPError(500, detail)

\* ------------------------------------------- POST /api/chat, step by step
\* Validation of the body, then the handler up to its first await.
Receive(r, req) ==
    /\ pc[r] = "idle"
    /\ \A q \in Requests : q < r => pc[q] # "idle"
    /\ request' = [request EXCEPT ![r] = req]
    /\ IF ~ChatRequestValid(req)
       THEN /\ response' = [response EXCEPT ![r] = HTTPError(422, "field required")]
            /\ pc' = [pc EXCEPT ![r] = "done"]
            /\ UNCHANGED <<local, now, uuids>>
       ELSE IF NeedsNewSession(req)
       THEN /\ local' = [local EXCEPT ![r].session = ChatSession(uuids + 1, now + 1, now + 2),
                                      ![r].session_id = uuids + 1]
            /\ uuids' = uuids + 1
            /\ now' = now + 2
            /\ pc' = [pc EXCEPT ![r] = "await_session_insert"]
            /\ UNCHANGED response
       ELSE /\ local' = [local EXCEPT ![r].session_id = req.session_id,
                                      ![r].updated_at = now + 1]
            /\ now' = now + 1
            /\ pc' = [pc EXCEPT ![r] = "await_session_update"]
            /\ UNCHANGED <<response, uuids>>
    /\ overlapped' = IF ChatRequestValid(req) /\ InFlight # {}
                     THEN overlapped \cup InFlight \cup {r}
                     ELSE overlapped
    /\ UNCHANGED <<chat_sessions, chat_messages, api_key, LLM_AVAILABLE, llm_calls>>
    /\ last_get' = NoGet

\* The session round trip completes; the user message object is built.
SessionResolved(r) ==
    /\ pc[r] \in {"await_session_insert", "await_session_update"}
    /\ chat_sessions' =
          IF pc[r] = "await_session_insert"
          THEN InsertSession(chat_sessions, local[r].session)
          ELSE UpdateSession(chat_sessions, local[r].session_id, local[r].updated_at)
    /\ local' = [local EXCEPT ![r].user_message_obj =
                    ChatMessage(uuids + 1, local[r].session_id, "user",
                                request[r].message, now + 1)]
    /\ uuids' = uuids + 1
    /\ now' = now + 1
    /\ pc' = [pc EXCEPT ![r] = "await_user_insert"]
    /\ UNCHANGED <<chat_messages, api_key, LLM_AVAILABLE, request, response, llm_calls, overlapped>>
    /\ last_get' = NoGet

\* Faulty variant: the user message is not inserted before the handler goes on.
UserMessageInserted_Skip(r) ==
    /\ pc[r] = "await_user_insert"
    /\ pc' = [pc EXCEPT ![r] = "await_find"]
    /\ UNCHANGED <<chat_sessions, chat_messages, now, uuids, api_key, LLM_AVAILABLE,
                   request, local, response, llm_calls, overlapped>>
    /\ last_get' = NoGet

\* The insert of the user message completes; the context query is issued.
UserMessageInserted(r) ==
    /\ pc[r] = "await_user_insert"
    /\ chat_messages' = InsertMessage(chat_messages, local[r].user_message_obj)
    /\ pc' = [pc EXCEPT ![r] = "await_find"]
    /\ UNCHANGED <<chat_sessions, now, uuids, api_key, LLM_AVAILABLE, request, local,
                   response, llm_calls, overlapped>>
    /\ last_get' = NoGet

\* The context query completes; the credential is checked, the client is
\* built and chat.send_message is called.
HistoryFetched(r) ==
    /\ pc[r] = "await_find"
    /\ local' = [local EXCEPT ![r].chat_history =
                    ContextQuery(chat_messages, local[r].session_id)]
    /\ IF CredentialMissing(api_key)
       THEN /\ response' = [response EXCEPT ![r] =
                              ChatServiceError("LLM API key not configured")]
            /\ pc' = [pc EXCEPT ![r] = "done"]
            /\ UNCHANGED llm_calls
       ELSE IF ~LLM_AVAILABLE
       THEN /\ response' = [response EXCEPT ![r] =
                              ChatServiceError("'NoneType' object is not callable")]
            /\ pc' = [pc EXCEPT ![r] = "done"]
            /\ UNCHANGED llm_calls
       ELSE /\ llm_calls' = llm_calls \cup {r}
            /\ pc' = [pc EXCEPT ![r] = "await_llm"]
            /\ UNCHANGED response
    /\ UNCHANGED <<chat_sessions, chat_messages, now, uuids, api_key, LLM_AVAILABLE,
                   request, overlapped>>
    /\ last_get' = NoGet

\* chat.send_message returns text; the assistant message object is built.
LlmReturned(r, text) ==
    /\ pc[r] = "await_llm"
    /\ local' = [local EXCEPT ![r].ai_response = text,
                              ![r].ai_message_obj =
                                  ChatMessage(uuids + 1, local[r].session_id,
                                              "assistant", text, now + 1)]
    /\ uuids' = uuids + 1
    /\ now' = now + 1
    /\ pc' = [pc EXCEPT ![r] = "await_ai_insert"]
    /\ UNCHANGED <<chat_sessions, chat_messages, api_key, LLM_AVAILABLE, request,
                   response, llm_calls, overlapped>>
    /\ last_get' = NoGet

\* Faulty variant: on a generation failure the handler compensates by
\* deleting the user message it stored.
LlmRaised_Rollback(r) ==
    /\ pc[r] = "await_llm"
    /\ chat_messages' = SelectSeq(chat_messages,
                                  LAMBDA m : m # local[r].user_message_obj)
    /\ response' = [response EXCEPT ![r] = ChatServiceError("generation failed")]
    /\ pc' = [pc EXCEPT ![r] = "done"]
    /\ UNCHANGED <<chat_sessions, now, uuids, api_key, LLM_AVAILABLE,
                   request, local, llm_calls, overlapped>>
    /\ last_get' = NoGet

\* chat.send_message raises.
LlmRaised(r) ==
    /\ pc[r] = "await_llm"
    /\ response' = [response EXCEPT ![r] = ChatServiceError("generation failed")]
    /\ pc' = [pc EXCEPT ![r] = "done"]
    /\ UNCHANGED <<chat_sessions, chat_messages, now, uuids, api_key, LLM_AVAILABLE,
                   request, local, llm_calls, overlapped>>
    /\ last_get' = NoGet

\* chat.send_message never completes: the handler stays suspended at its
\* await, which no timeout guards.
LlmHangs(r) ==
    /\ pc[r] = "await_llm"
    /\ pc' = [pc EXCEPT ![r] = "hung"]
    /\ UNCHANGED <<chat_sessions, chat_messages, now, uuids, api_key, LLM_AVAILABLE,
                   request, local, response, llm_calls, overlapped>>
    /\ last_get' = NoGet

\* Faulty variant: the response is returned without inserting the assistant message.
AiMessageInserted_NoInsert(r) ==
    /\ pc[r] = "await_ai_insert"
    /\ response' = [response EXCEPT ![r] =
                      ChatResponse(local[r].ai_response, local[r].session_id,
                                   local[r].ai_message_obj.timestamp)]
    /\ pc' = [pc EXCEPT ![r] = "done"]
    /\ UNCHANGED <<chat_sessions, chat_messages, now, uuids, api_key, LLM_AVAILABLE,
                   request, local, llm_calls, overlapped>>
    /\ last_get' = NoGet

\* The insert of the assistant message completes; the response is returned.
AiMessageInserted(r) ==
    /\ pc[r] = "await_ai_insert"
    /\ chat_messages' = InsertMessage(chat_messages, local[r].ai_message_obj)
    /\ response' = [response EXCEPT ![r] =
                      ChatResponse(local[r].ai_response, local[r].session_id,
                                   local[r].ai_message_obj.timestamp)]
    /\ pc' = [pc EXCEPT ![r] = "done"]
    /\ UNCHANGED <<chat_sessions, now, uuids, api_key, LLM_AVAILABLE, request, local,
                   llm_calls, overlapped>>
    /\ last_get' = NoGet

\* The awaits of the handler that are round trips to the store.
StoreAwaits ==
    {"await_session_insert", "await_session_update", "await_user_insert",
     "await_find", "await_ai_insert"}

\* A round trip to the store raises instead of completing: the operation is
\* not applied and the handler's except clause answers 500.  The detail
\* names the round trip that failed.
StoreFailed(r) ==
    /\ pc[r] \in StoreAwaits
    /\ response' = [response EXCEPT ![r] = ChatServiceError(pc[r])]
    /\ pc' = [pc EXCEPT ![r] = "done"]
    /\ UNCHANGED <<chat_sessions, chat_messages, now, uuids, api_key, LLM_AVAILABLE,
                   request, local, llm_calls, overlapped>>
    /\ last_get' = NoGet

\* ------------------------------------------------------ the GET handlers
\* GET /api/chat/history/{session_id}
GetChatHistory(sid) ==
    /\ last_get' = [op |-> "history", arg |-> sid, status |-> 200,
                    body |-> HistoryQuery(chat_messages, sid)]
    /\ UNCHANGED <<chat_sessions, chat_messages, now, uuids, api_key, LLM_AVAILABLE,
                   pc, request, local, response, llm_calls, overlapped>>

\* Faulty variant: the listing handler drops the records it does not return.
GetChatSessions_Prune ==
    /\ last_get' = [op |-> "sessions", arg |-> NoSessionId, status |-> 200,
                    body |-> SessionsQuery(chat_sessions)]
    /\ chat_sessions' = Range(SessionsQuery(chat_sessions))
    /\ UNCHANGED <<chat_messages, now, uuids, api_key, LLM_AVAILABLE,
                   pc, request, local, response, llm_calls, overlapped>>

\* GET /api/chat/sessions
GetChatSessions ==
    /\ last_get' = [op |-> "sessions", arg |-> NoSessionId, status |-> 200,
                    body |-> SessionsQuery(chat_sessions)]
    /\ UNCHANGED <<chat_sessions, chat_messages, now, uuids, api_key, LLM_AVAILABLE,
                   pc, request, local, response, llm_calls, overlapped>>

\* The chat requests one after the other, on a store that answers every
\* round trip: a request is received when no handler is running.
Next ==
    \/ \E r \in Requests, req \in ChatRequests : InFlight = {} /\ Receive(r, req)
    \/ \E r \in Requests : SessionResolved(r)
    \/ \E r \in Requests : UserMessageInserted(r)
    \/ \E r \in Requests : HistoryFetched(r)
    \/ \E r \in Requests, text \in LlmReplies : LlmReturned(r, text)
    \/ \E r \in Requests : LlmRaised(r)
    \/ \E r \in Requests : LlmHangs(r)
    \/ \E r \in Requests : AiMessageInserted(r)

Spec == Init /\ [][Next]_vars

\* Two chat requests whose handlers interleave freely at their await points
\* (one task per request, no lock), on a store whose round trips may fail.
Tasks == {1, 2}

NextOverlap ==
    \/ \E r \in Tasks, req \in ChatRequests : Receive(r, req)
    \/ \E r \in Tasks : SessionResolved(r)
    \/ \E r \in Tasks : UserMessageInserted(r)
    \/ \E r \in Tasks : HistoryFetched(r)
    \/ \E r \in Tasks, text \in LlmReplies : LlmReturned(r, text)
    \/ \E r \in Tasks : LlmRaised(r)
    \/ \E r \in Tasks : LlmHangs(r)
    \/ \E r \in Tasks : AiMessageInserted(r)
    \/ \E r \in Tasks : StoreFailed(r)

SpecOverlap == Init /\ [][NextOverlap]_vars

\* One chat request, and the two GET handlers at any moment of it, on every
\* store.
NextRead ==
    \/ \E req \in ChatRequests : Receive(1, req)
    \/ SessionResolved(1)
    \/ UserMessageInserted(1)
    \/ HistoryFetched(1)
    \/ \E text \in LlmReplies : LlmReturned(1, text)
    \/ LlmRaised(1)
    \/ LlmHangs(1)
    \/ AiMessageInserted(1)
    \/ StoreFailed(1)
    \/ \E sid \in SuppliedIds \ {NoSessionId} : GetChatHistory(sid)
    \/ GetChatSessions

SpecRead == InitRead /\ [][NextRead]_vars

\* ------------------------------------------------- the rule tier (spec)
\* The keyword matcher of the specification (section 4.1); server.py holds
\* no such tier.  The trigger found in a text, "" when there is none.
TriggerIn(text) == IF text = MsgKeyword THEN "anxious" ELSE ""

CannedReply(trigger) ==
    IF trigger = "anxious"
    THEN "Anxiety can feel overwhelming. Let's take a slow breath together."
    ELSE ""

\* The fixed check-in reply of the default tier (section 4.3).
DefaultReply == "I'm here for you. How are you feeling right now?"

\* ------------------------------------------------------ shared predicates
Stored(m) == \E i \in DOMAIN chat_messages : chat_messages[i] = m

Position(m) == CHOOSE i \in DOMAIN chat_messages : chat_messages[i] = m

Done(r) == pc[r] = "done"

Blank(text) == text \in {MsgEmpty, MsgBlank}

\* The generation call of request r raised, or returned nothing usable.
GenerationFailed(r) ==
    /\ r \in llm_calls
    /\ \/ Done(r) /\ response[r].status = 500
       \/ local[r].ai_message_obj # NoMessage /\ Blank(local[r].ai_response)

\* Request r was answered 500 because a round trip to the store raised.
StoreError(r) ==
    Done(r) /\ response[r].status = 500 /\ response[r].message \in StoreAwaits

\* The stored messages of session sid, in the order they were stored.
MessagesOf(sid) == SelectSeq(chat_messages, LAMBDA m : m.session_id = sid)

\* ---------------------------------------------------------------- claims
\* C1: a request whose message contains a registered trigger keyword is
\* answered with that keyword's canned text and the generation backend is
\* not invoked for it, whatever the state of the backend.
C1_RuleTierFirst ==
    \A r \in Requests :
        (Done(r) /\ ChatRequestValid(request[r])
                 /\ TriggerIn(request[r].message) # "")
        => /\ response[r].status = 200
           /\ response[r].message = CannedReply(TriggerIn(request[r].message))
           /\ r \notin llm_calls

\* C2: a request with a non-empty message without keyword whose generation
\* call raises or returns an empty string still succeeds: the reply is the
\* default check-in text and an assistant message with that text is stored
\* after the user message.
C2_DefaultOnFailure ==
    \A r \in Requests :
        (Done(r) /\ request[r].message = MsgPlain /\ GenerationFailed(r))
        => /\ response[r].status = 200
           /\ response[r].message = DefaultReply
           /\ Stored(local[r].ai_message_obj)
           /\ local[r].ai_message_obj.message = DefaultReply
           /\ Position(local[r].user_message_obj) < Position(local[r].ai_message_obj)

\* C3: a request whose message is empty or whitespace-only is rejected with
\* status 422 before any state mutation: the handler never runs for it.
C3_EmptyRejected ==
    \A r \in Requests :
        (pc[r] # "idle" /\ Blank(request[r].message))
        => /\ Done(r)
           /\ response[r].status = 422
           /\ local[r] = NoLocal
           /\ r \notin llm_calls

\* C4: in every chat request the user message is stored before the
\* generation backend is called and before the assistant reply is stored,
\* with a timestamp not later than the reply's; every stored assistant
\* message is preceded in the store by a user message of its session.
C4_UserBeforeAssistant ==
    /\ \A r \in Requests :
          LET u == local[r].user_message_obj
              a == local[r].ai_message_obj
          IN /\ r \in llm_calls => Stored(u)
             /\ a # NoMessage => /\ Stored(u)
                                 /\ u.session_id = a.session_id
                                 /\ u.timestamp <= a.timestamp
             /\ Stored(a) => Position(u) < Position(a)
    /\ \A i \in DOMAIN chat_messages :
          chat_messages[i].sender = "assistant"
          => \E j \in 1..(i - 1) :
                /\ chat_messages[j].sender = "user"
                /\ chat_messages[j].session_id = chat_messages[i].session_id
                /\ chat_messages[j].timestamp <= chat_messages[i].timestamp

\* Two overlapping requests have both stored their assistant reply.
C4_Witness ==
    /\ overlapped = Tasks
    /\ \A r \in Tasks : Stored(local[r].ai_message_obj)

\* The requests received so far.
Received == {r \in Requests : pc[r] # "idle"}

\* The requests received so far are a chain: all answered with 200, none
\* overlapping another, the first without session_id and every later one
\* carrying the identifier the first response returned.
Chain ==
    /\ Received # {}
    /\ overlapped = {}
    /\ \A r \in Received : Done(r) /\ response[r].status = 200
    /\ request[1].session_id = NoSessionId
    /\ \A r \in Received \ {1} : request[r].session_id = response[1].session_id

\* C5: after a chain of n requests there is exactly one session record for
\* the returned identifier and its log, in timestamp order, is the 2n
\* messages user 1, assistant 1, ..., user n, assistant n with the requests'
\* texts and the returned replies.
C5_ChainHistory ==
    Chain =>
        LET sid == response[1].session_id
            n == Cardinality(Received)
            log == MessagesOf(sid)
        IN /\ Cardinality({s \in chat_sessions : s.id = sid}) = 1
           /\ Len(log) = 2 * n
           /\ \A r \in Received :
                 /\ log[2 * r - 1].sender = "user"
                 /\ log[2 * r - 1].message = request[r].message
                 /\ log[2 * r].sender = "assistant"
                 /\ log[2 * r].message = response[r].message
           /\ \A i \in 1..(Len(log) - 1) : log[i].timestamp < log[i + 1].timestamp

\* A chain of two requests.
C5_Witness == Chain /\ Cardinality(Received) = 2

\* Request r completes its session round trip in this step.
Resolves(r) ==
    /\ pc[r] \in {"await_session_insert", "await_session_update"}
    /\ pc'[r] = "await_user_insert"

\* C6: a request that supplies the identifier of an existing session never
\* adds a session record; a request that supplies none adds exactly one,
\* with an identifier no existing record carries; no other step of a
\* request adds one.
C6_SessionResolution ==
    [][/\ \A r \in Requests :
             Resolves(r) =>
                IF request[r].session_id = NoSessionId
                THEN /\ Cardinality(chat_sessions') = Cardinality(chat_sessions) + 1
                     /\ \E s \in chat_sessions' :
                           /\ chat_sessions' = chat_sessions \cup {s}
                           /\ \A x \in chat_sessions : x.id # s.id
                ELSE (\E x \in chat_sessions : x.id = request[r].session_id)
                     => Cardinality(chat_sessions') = Cardinality(chat_sessions)
       /\ (\A r \in Requests : ~Resolves(r))
             => Cardinality(chat_sessions') = Cardinality(chat_sessions)]_vars

\* One request has created a session and another has been answered on an
\* existing one.
C6_Witness ==
    \E r, q \in Requests :
        /\ Done(r) /\ response[r].status = 200 /\ request[r].session_id = NoSessionId
        /\ Done(q) /\ response[q].status = 200
        /\ \E s \in chat_sessions : s.id = request[q].session_id

\* The context query of request r has returned.
Fetched(r) == local[r].chat_history # <<>>

\* C7: the context fetched right after the user message is stored holds at
\* most 50 messages of the session, oldest first, and among them that user
\* message, after every earlier message of the session, however many
\* messages the session already holds.
C7_ContextHoldsNewMessage ==
    \A r \in Requests :
        Fetched(r) =>
            LET h == local[r].chat_history
                u == local[r].user_message_obj
            IN /\ Len(h) <= CONTEXT_LIMIT
               /\ \E i \in DOMAIN h :
                     /\ h[i] = u
                     /\ \A j \in DOMAIN h : h[j].timestamp < u.timestamp => j < i

\* C8 as claimed: the history response holds every stored message of the
\* session, and only those, oldest first.
C8_HistoryComplete ==
    last_get.op = "history" =>
        /\ last_get.status = 200
        /\ Range(last_get.body) = Range(MessagesOf(last_get.arg))
        /\ \A i, j \in DOMAIN last_get.body :
              i < j => last_get.body[i].timestamp <= last_get.body[j].timestamp

\* C8, amended: the history response is a success holding the 100 oldest
\* stored messages of the session (all of them when there are at most 100),
\* and none of another session, oldest first; an identifier under which
\* nothing is stored gives the empty sequence.
C8_HistoryOldestHundred ==
    last_get.op = "history" =>
        LET b == last_get.body
            all == MessagesOf(last_get.arg)
        IN /\ last_get.status = 200
           /\ Len(b) = Min(Len(all), HISTORY_LIMIT)
           /\ \A i \in DOMAIN b : b[i].session_id = last_get.arg /\ Stored(b[i])
           /\ \A i, j \in DOMAIN b :
                 i < j => b[i].timestamp <= b[j].timestamp /\ b[i] # b[j]
           /\ \A m \in Range(all) \ Range(b) :
                 \A i \in DOMAIN b : b[i].timestamp <= m.timestamp

\* A history response cut at 100 messages.
C8_Witness ==
    /\ last_get.op = "history"
    /\ Len(last_get.body) = HISTORY_LIMIT
    /\ Len(MessagesOf(last_get.arg)) > HISTORY_LIMIT

\* The one request received has come back from the handler, its session
\* round trip having completed.
Completed(r) == Received = {r} /\ Done(r) /\ local[r].user_message_obj # NoMessage

\* The listing is the records with the greatest updated_at, at most 20 of
\* them, greatest first.
MostRecentlyUpdated(b) ==
    /\ Len(b) = Min(Cardinality(chat_sessions), SESSIONS_LIMIT)
    /\ \A i \in DOMAIN b : b[i] \in chat_sessions
    /\ \A i, j \in DOMAIN b : i < j => b[i].updated_at >= b[j].updated_at /\ b[i] # b[j]
    /\ \A s \in chat_sessions \ Range(b) :
          \A i \in DOMAIN b : b[i].updated_at >= s.updated_at

C10_NoCredentialNoFallback ==
    api_key = "" =>
        /\ llm_calls = {}
        /\ \A r \in Requests :
              /\ local[r].ai_message_obj = NoMessage
              /\ (Done(r) /\ ChatRequestValid(request[r])) => response[r].status = 500
              /\ local[r].user_message_obj # NoMessage =>
                    ~\E i \in DOMAIN chat_messages :
                        /\ chat_messages[i].sender = "assistant"
                        /\ chat_messages[i].session_id = local[r].session_id
                        /\ chat_messages[i].timestamp >= local[r].user_message_obj.timestamp

\* Without credential, a request with a non-empty message has ended in 500
\* with its user message stored.
C10_Witness ==
    /\ api_key = ""
    /\ \E r \in Requests :
          /\ Done(r) /\ request[r].message = MsgPlain
          /\ response[r].status = 500
          /\ Stored(local[r].user_message_obj)

\* Some step of the handler of request r.
HandlerStep(r) ==
    \/ SessionResolved(r)
    \/ UserMessageInserted(r)
    \/ HistoryFetched(r)
    \/ \E text \in LlmReplies : LlmReturned(r, text)
    \/ LlmRaised(r)
    \/ LlmHangs(r)
    \/ AiMessageInserted(r)
    \/ StoreFailed(r)

\* C11: every chat request terminates even when the generation backend
\* never answers: a handler suspended on a generation call that will not
\* return always has a step left to take (the deadline that cuts the call
\* off and lets the default reply be returned), so no request stays
\* blocked for ever.
C11_HungCallCutOff ==
    \A r \in Requests : pc[r] = "hung" => ENABLED HandlerStep(r)

\* The two tasks overlapped, carried the identifier of one stored session
\* and were both answered 200.
SameSessionPair ==
    /\ overlapped = Tasks
    /\ \A r \in Tasks : Done(r) /\ response[r].status = 200
    /\ request[1].session_id = request[2].session_id
    /\ \E s \in chat_sessions : s.id = request[1].session_id

\* C12: when two overlapping requests on one existing session both
\* succeed, whatever the interleaving of their steps, the messages stored in
\* the session since the first of them started are exactly four, the user
\* message and the assistant reply of each request; each request's user
\* message is stamped no later than its own reply; and one session record
\* carries the identifier.
C12_NoAppendLost ==
    SameSessionPair =>
        LET sid == request[1].session_id
            start == Min(local[1].updated_at, local[2].updated_at)
            new == SelectSeq(MessagesOf(sid), LAMBDA m : m.timestamp > start)
        IN /\ Len(new) = 4
           /\ Range(new) = {local[r].user_message_obj : r \in Tasks}
                               \cup {local[r].ai_message_obj : r \in Tasks}
           /\ Cardinality(Range(new)) = 4
           /\ \A r \in Tasks :
                 local[r].user_message_obj.timestamp <= local[r].ai_message_obj.timestamp
           /\ Cardinality({s \in chat_sessions : s.id = sid}) = 1

\* Both overlapping requests on the stored session were answered, the second
\* to start being the first to store its reply.
C12_Witness ==
    /\ SameSessionPair
    /\ Position(local[2].ai_message_obj) < Position(local[1].user_message_obj)

\* C13: every stored message carries the identifier of a stored session
\* record, and every request answered 200 names a session that has a
\* record: a request whose session_id matches no record gets one created.
C13_ReferentialIntegrity ==
    /\ \A i \in DOMAIN chat_messages :
          \E s \in chat_sessions : s.id = chat_messages[i].session_id
    /\ \A r \in Requests :
          (Done(r) /\ response[r].status = 200)
          => \E s \in chat_sessions : s.id = response[r].session_id

\* Request r was answered 500 at a point of the handler later than the
\* insert of its user message.
FailedAfterUserStored(r) ==
    /\ Done(r) /\ response[r].status = 500
    /\ response[r].message \notin
          {"await_session_insert", "await_session_update", "await_user_insert"}

\* What request r stored is in the store: its user message once, the
\* session record it created; and no assistant message of r.
Kept(r) ==
    /\ Cardinality({i \in DOMAIN chat_messages :
                       chat_messages[i] = local[r].user_message_obj}) = 1
    /\ ~Stored(local[r].ai_message_obj)
    /\ NeedsNewSession(request[r]) =>
          \E s \in chat_sessions :
              /\ s.id = local[r].session_id
              /\ s.created_at = local[r].session.created_at

\* C14: a request that fails after its user message was stored (credential
\* absent, generation call raising, context query or assistant insert
\* failing) undoes nothing: the failing step leaves both collections as
\* they were, and from then on the user message is stored exactly once, the
\* session record the request created is stored, and no assistant message
\* of the request is.
C14_NoCompensation ==
    [][\A r \in Requests :
          /\ FailedAfterUserStored(r)' => Kept(r)'
          /\ (~Done(r) /\ FailedAfterUserStored(r)')
                => UNCHANGED <<chat_sessions, chat_messages>>]_vars

\* One request failed on the insert of its assistant message and the other
\* on the generation call, each with its user message stored.
C14_Witness ==
    /\ StoreError(1) /\ response[1].message = "await_ai_insert"
    /\ response[2] = ChatServiceError("generation failed")
    /\ \A r \in Tasks : Done(r) /\ Stored(local[r].user_message_obj)

\* C15: the message collection only grows at its end: every step leaves
\* each stored message in place with all its fields; every stored message
\* has sender "user" or "assistant"; and a step of one of the two GET
\* handlers leaves the session and message collections as they were.
C15_AppendOnly ==
    [][/\ Len(chat_messages') >= Len(chat_messages)
       /\ SubSeq(chat_messages', 1, Len(chat_messages)) = chat_messages
       /\ \A i \in DOMAIN chat_messages' :
             chat_messages'[i].sender \in {"user", "assistant"}
       /\ last_get' # NoGet => UNCHANGED <<chat_sessions, chat_messages>>]_vars

\* The history of a session has been read after a request stored its user
\* message and its assistant reply there.
C15_Witness ==
    /\ last_get.op = "history"
    /\ Done(1) /\ response[1].status = 200
    /\ last_get.arg = response[1].session_id
    /\ \E i, j \in DOMAIN last_get.body :
          /\ i < j
          /\ last_get.body[i] = local[1].user_message_obj
          /\ last_get.body[j] = local[1].ai_message_obj

\* Request r acts on session sid in this step.
ActsOn(r, sid) == pc'[r] # pc[r] /\ local'[r].session_id = sid

\* In this step nothing of a session other than the acting request's
\* changes: a record that differs, or is new, is that of the request
\* completing its session round trip, and a message that is new is stored
\* under the acting request's session.  A record keeps its id, created_at,
\* title and user_id, and no record disappears.
Isolated ==
    /\ \A s \in chat_sessions :
          \E t \in chat_sessions' :
              /\ t.id = s.id /\ t.user_id = s.user_id
              /\ t.created_at = s.created_at /\ t.title = s.title
              /\ t # s => \E r \in Requests : Resolves(r) /\ ActsOn(r, s.id)
    /\ \A t \in chat_sessions' \ chat_sessions :
          \E r \in Requests : Resolves(r) /\ ActsOn(r, t.id)
    /\ \A i \in DOMAIN chat_messages' :
          IF i \in DOMAIN chat_messages
          THEN chat_messages'[i] = chat_messages[i]
          ELSE \E r \in Requests : ActsOn(r, chat_messages'[i].session_id)
    /\ \A t \in chat_sessions' : t.updated_at >= t.created_at

\* The record of session sid after this step.
RecordAfter(sid) == CHOOSE t \in chat_sessions' : t.id = sid

\* Two requests that overlapped target session sid.
RacedOn(sid) ==
    \E r, q \in overlapped :
        r # q /\ local[r].session_id = sid /\ local[q].session_id = sid

\* C16 as claimed: every step is isolated and no step lowers the updated_at
\* of a session record.
C16_IsolatedMonotone ==
    [][/\ Isolated
       /\ \A s \in chat_sessions :
             RecordAfter(s.id).updated_at >= s.updated_at]_vars

\* C16, amended: every step is isolated; a step lowers the updated_at of a
\* record only when two overlapping requests target that session, and then
\* not below its created_at.
C16_IsolatedRefresh ==
    [][/\ Isolated
       /\ \A s \in chat_sessions :
             \/ RecordAfter(s.id).updated_at >= s.updated_at
             \/ RacedOn(s.id)]_vars

\* Two overlapping requests on one stored session have both completed the
\* session round trip, and the record carries the time the earlier one
\* read: the update issued first was applied last.
C16_Witness ==
    /\ overlapped = Tasks
    /\ \A r \in Tasks : local[r].user_message_obj # NoMessage
    /\ local[1].session_id = local[2].session_id
    /\ \E s \in chat_sessions :
          /\ s.id = local[1].session_id
          /\ s.updated_at = local[1].updated_at
          /\ s.updated_at < local[2].updated_at

\* C17: with the client library absent and the credential set, a request
\* with a non-empty message is still answered 200 and an assistant message is
\* stored for it.
C17_MockWhenLibraryMissing ==
    \A r \in Requests :
        (Done(r) /\ ~LLM_AVAILABLE /\ ~CredentialMissing(api_key)
                 /\ request[r].message \in {MsgKeyword, MsgPlain})
        => /\ response[r].status = 200
           /\ Stored(local[r].ai_message_obj)
           /\ local[r].ai_message_obj.sender = "assistant"

\* C18: within a session the timestamps follow the order of insertion: a
\* message stored after another of its session is stamped no earlier,
\* whatever the interleaving of the requests.
C18_InsertionOrderMonotone ==
    \A i, j \in DOMAIN chat_messages :
        (i < j /\ chat_messages[i].session_id = chat_messages[j].session_id)
        => chat_messages[i].timestamp <= chat_messages[j].timestamp

=============================================================================
